---- MODULE Spec2Model ----
(***************************************************************************)
(* Model of src/src/sidecarTransformer.ts: the @sidecar directive handler  *)
(* (SidecarTransformer.object) working on a TransformerContext, and the    *)
(* pure address builder lambdaArnResource.                                 *)
(*                                                                         *)
(* Strings are sequences of tokens.  A target name is a sequence over      *)
(* NameTokens: "fn" stands for a run of letters, "-" for a dash and        *)
(* "${env}" for the environment placeholder; no other token contains the   *)
(* characters of the placeholder, so a substring match of the source's     *)
(* regular expressions is a match on tokens.                               *)
(*                                                                         *)
(* The functions of graphql-transformer-common (FunctionResourceIDs,       *)
(* plurality) are imported, not part of this source: they are modelled as  *)
(* deterministic term constructors over their arguments, one constructor   *)
(* per function, which is the interface section 4.1 of the specification   *)
(* gives them (distinct deterministic strings scoped by purpose).          *)
(***************************************************************************)
EXTENDS Integers, Sequences, FiniteSets, TLC

\* ------------------------------------------------------------------ bounds
MaxCalls == 3
MaxNameLen == 3

\* --------------------------------------------------------------- constants
SIDECAR_DIRECTIVE_STACK == "FunctionDirectiveStack"

ENV == "${env}"
DASH == "-"
NameTokens == {"fn", DASH, ENV}

\* region?: string -- undefined, the empty string, or a region name
NoRegion == "<undefined>"
ArnRegions == {NoRegion, "", "eu-west-1"}

\* every non-empty target name of at most MaxNameLen tokens
ArnNames == UNION {[1..n -> NameTokens] : n \in 1..MaxNameLen}

NoResult == [fn |-> "none"]

\* --------------------------------------------- deferred expressions (Fn.*)
FnRef(param) == [fn |-> "Ref", ref |-> param]
FnGetAtt(res, att) == [fn |-> "Fn::GetAtt", res |-> res, att |-> att]
FnSub(template, substitutions) ==
    [fn |-> "Fn::Sub", template |-> template, substitutions |-> substitutions]
FnJoin(sep, parts) == [fn |-> "Fn::Join", sep |-> sep, parts |-> parts]
FnIf(cond, whenTrue, whenFalse) ==
    [fn |-> "Fn::If", cond |-> cond, whenTrue |-> whenTrue, whenFalse |-> whenFalse]

HasEnvironmentParameter == "HasEnvironmentParameter"
EnvParameter == "env"
GraphQLAPILogicalID == "GraphQLAPI"

\* JavaScript truthiness of an optional string
Truthy(s) == s # NoRegion /\ s # ""

\* ------------------------------------------------ conditional address builder
lambdaArnKey(name, region) ==
    IF Truthy(region)
    THEN <<"arn:aws:lambda:", region, ":${AWS::AccountId}:function:">> \o name
    ELSE <<"arn:aws:lambda:${AWS::Region}:${AWS::AccountId}:function:">> \o name

referencesEnv(value) == \E i \in 1..Len(value) : value[i] = ENV

\* positions where the pattern -${env} starts
DashEnvAt(value) ==
    {i \in 1..(Len(value) - 1) : value[i] = DASH /\ value[i + 1] = ENV}

\* slip: the pattern loses the placeholder and strips the first dash
removeEnvReference_FirstDash(value) ==
    IF \E i \in 1..Len(value) : value[i] = DASH
    THEN LET i == CHOOSE j \in 1..Len(value) :
                     value[j] = DASH /\ \A k \in 1..(j - 1) : value[k] # DASH
         IN  SubSeq(value, 1, i - 1) \o SubSeq(value, i + 1, Len(value))
    ELSE value

\* String.replace with a non-global pattern: the first match only
removeEnvReference(value) ==
    IF DashEnvAt(value) = {}
    THEN value
    ELSE LET i == CHOOSE j \in DashEnvAt(value) : \A k \in DashEnvAt(value) : j <= k
         IN  SubSeq(value, 1, i - 1) \o SubSeq(value, i + 2, Len(value))

lambdaArnResource(name, region) ==
    LET substitutions == IF referencesEnv(name)
                         THEN {<<"env", FnRef(EnvParameter)>>}
                         ELSE {}
    IN  FnIf(HasEnvironmentParameter,
             FnSub(lambdaArnKey(name, region), substitutions),
             FnSub(lambdaArnKey(removeEnvReference(name), region), {}))

\* ------------------------------------------------------------ naming library
\* graphql-transformer-common FunctionResourceIDs: one term per function
FunctionDataSourceID(name, region) ==
    <<"FunctionDataSourceID(">> \o name \o <<",", region, ")">>

\* slip: the role identifier is scoped by the name alone
FunctionIAMRoleID_RegionDropped(name, region) ==
    <<"FunctionIAMRoleID(">> \o name \o <<")">>

FunctionIAMRoleID(name, region) ==
    <<"FunctionIAMRoleID(">> \o name \o <<",", region, ")">>

FunctionAppSyncFunctionConfigurationID(name, region) ==
    <<"FunctionAppSyncFunctionConfigurationID(">> \o name \o <<",", region, ")">>

\* FunctionIAMRoleName(name, withEnv): the region is not an argument
FunctionIAMRoleName(name, withEnv) ==
    <<"FunctionIAMRoleName(">> \o name \o <<",", IF withEnv THEN "true" ELSE "false", ")">>

\* plurality(val, true): the plural form of a field name
plurality(val) == val \o <<"s">>

\* fieldName[0].toUpperCase() on the leading verb of a field name
toUpperCase(tok) ==
    CASE tok = "create" -> "Create"
      [] tok = "update" -> "Update"
      [] tok = "delete" -> "Delete"
      [] tok = "get" -> "Get"
      [] tok = "list" -> "List"
      [] OTHER -> tok

\* ------------------------------------------------------------------ inputs
TypeNames == {"Widget", "Gadget"}

NoDirectives == [present |-> FALSE, names |-> {}]
DirectiveLists ==
    {NoDirectives,
     [present |-> TRUE, names |-> {"sidecar"}],
     [present |-> TRUE, names |-> {"model", "sidecar"}]}

\* ObjectTypeDefinitionNode: name.value and directives
Definitions == [name : TypeNames, directives : DirectiveLists]

TargetNames == {<<"fn">>, <<"fn", DASH, ENV>>}
Regions == {NoRegion, "eu-west-1"}

\* getDirectiveArguments(directive)
DirectiveArguments == [name : TargetNames, region : Regions]

NoDefinition == [name |-> "", directives |-> NoDirectives]
NoArguments == [name |-> <<>>, region |-> NoRegion]
NoKeys == [sidecarLambdaFunctionId |-> <<>>, sidecarLambdaDataSourceName |-> <<>>]
NoSet == [key |-> <<>>, existed |-> FALSE, by |-> "none"]
NoRun == [definition |-> NoDefinition, directive |-> NoArguments,
          ret |-> NoKeys, pc |-> "idle"]

Procs == {1, 2}
SerialProcs == {1}

\* ------------------------------------------------------ TransformerContext
\* slip: the existence check never finds the resource
getResource_Never(reg, key) == FALSE

\* ctx.getResource(key), used for its truthiness
getResource(reg, key) == key \in DOMAIN reg

\* ctx.setResource(key, resource): overwrite-capable
setResource(reg, key, resource) ==
    [k \in DOMAIN reg \cup {key} |-> IF k = key THEN resource ELSE reg[k]]

\* slip: the stack mapping is not recorded
mapResourceToStack_Dropped(st, stackName, key) == st

\* ctx.mapResourceToStack(stackName, resource)
mapResourceToStack(st, stackName, key) ==
    [k \in DOMAIN st \cup {key} |-> IF k = key THEN stackName ELSE st[k]]

\* ------------------------------------------------------ resource descriptors
\* slip: the permission is built without the region
RoleResource_RegionDropped(name, region) ==
    [Type |-> "AWS::IAM::Role",
     Properties |->
        [RoleName |->
            FnIf(HasEnvironmentParameter,
                 FnJoin("-", <<[lit |-> FunctionIAMRoleName(name, TRUE)],
                               FnGetAtt(<<GraphQLAPILogicalID>>, "ApiId"),
                               FnRef(EnvParameter)>>),
                 FnJoin("-", <<[lit |-> FunctionIAMRoleName(name, FALSE)],
                               FnGetAtt(<<GraphQLAPILogicalID>>, "ApiId")>>)),
         AssumeRolePolicyDocument |->
            [Effect |-> "Allow", Service |-> "appsync.amazonaws.com",
             Action |-> "sts:AssumeRole"],
         Policies |->
            <<[PolicyName |-> "InvokeLambdaFunction",
               Effect |-> "Allow",
               Action |-> {"lambda:InvokeFunction"},
               Resource |-> lambdaArnResource(name, NoRegion)]>>],
     DependsOn |-> {}]

RoleResource(name, region) ==
    [Type |-> "AWS::IAM::Role",
     Properties |->
        [RoleName |->
            FnIf(HasEnvironmentParameter,
                 FnJoin("-", <<[lit |-> FunctionIAMRoleName(name, TRUE)],
                               FnGetAtt(<<GraphQLAPILogicalID>>, "ApiId"),
                               FnRef(EnvParameter)>>),
                 FnJoin("-", <<[lit |-> FunctionIAMRoleName(name, FALSE)],
                               FnGetAtt(<<GraphQLAPILogicalID>>, "ApiId")>>)),
         AssumeRolePolicyDocument |->
            [Effect |-> "Allow", Service |-> "appsync.amazonaws.com",
             Action |-> "sts:AssumeRole"],
         Policies |->
            <<[PolicyName |-> "InvokeLambdaFunction",
               Effect |-> "Allow",
               Action |-> {"lambda:InvokeFunction"},
               Resource |-> lambdaArnResource(name, region)]>>],
     DependsOn |-> {}]

\* slip: the data source is built without .dependsOn(iamRoleId)
DataSourceResource_NoDependsOn(name, region, iamRoleId, sidecarLambdaDataSourceName) ==
    [Type |-> "AWS::AppSync::DataSource",
     Properties |->
        [ApiId |-> FnGetAtt(<<GraphQLAPILogicalID>>, "ApiId"),
         Name |-> sidecarLambdaDataSourceName,
         Type |-> "AWS_LAMBDA",
         ServiceRoleArn |-> FnGetAtt(iamRoleId, "Arn"),
         LambdaFunctionArn |-> lambdaArnResource(name, region)],
     DependsOn |-> {}]

DataSourceResource(name, region, iamRoleId, sidecarLambdaDataSourceName) ==
    [Type |-> "AWS::AppSync::DataSource",
     Properties |->
        [ApiId |-> FnGetAtt(<<GraphQLAPILogicalID>>, "ApiId"),
         Name |-> sidecarLambdaDataSourceName,
         Type |-> "AWS_LAMBDA",
         ServiceRoleArn |-> FnGetAtt(iamRoleId, "Arn"),
         LambdaFunctionArn |-> lambdaArnResource(name, region)],
     DependsOn |-> {iamRoleId}]

FunctionConfigurationResource(sidecarLambdaFunctionId, sidecarLambdaDataSourceName) ==
    [Type |-> "AWS::AppSync::FunctionConfiguration",
     Properties |->
        [ApiId |-> FnGetAtt(<<GraphQLAPILogicalID>>, "ApiId"),
         Name |-> sidecarLambdaFunctionId,
         DataSourceName |-> sidecarLambdaDataSourceName,
         FunctionVersion |-> "2018-05-29",
         RequestMappingTemplate |->
            <<"Invoke AWS Lambda data source: ">> \o sidecarLambdaDataSourceName,
         ResponseMappingTemplate |-> "Handle error or return result"],
     DependsOn |-> {sidecarLambdaDataSourceName}]

\* slip: the identifier keeps only the first character run of the field name
sidecarResolverId_VerbOnly(typeName, fieldName) ==
    <<typeName, toUpperCase(fieldName[1]), "SidecarResolver">>

sidecarResolverId(typeName, fieldName) ==
    <<typeName, toUpperCase(fieldName[1])>> \o Tail(fieldName) \o <<"SidecarResolver">>

ResolverResource(sidecarLambdaFunctionId, sidecarLambdaDataSourceName, typeName, fieldName) ==
    [Type |-> "AWS::AppSync::Resolver",
     Properties |->
        [ApiId |-> FnGetAtt(<<GraphQLAPILogicalID>>, "ApiId"),
         TypeName |-> typeName,
         FieldName |-> fieldName,
         Kind |-> "UNIT",
         DataSourceName |-> sidecarLambdaDataSourceName,
         RequestMappingTemplate |->
            [stashTypeName |-> typeName, stashFieldName |-> fieldName],
         ResponseMappingTemplate |-> "$util.toJson($ctx.result)"],
     DependsOn |-> {sidecarLambdaFunctionId}]

\* slip: the list field is not pluralized
ResolverCalls_ListNotPlural(typeValue) ==
    <<[typeName |-> "Mutation", fieldName |-> <<"create", typeValue>>],
      [typeName |-> "Mutation", fieldName |-> <<"update", typeValue>>],
      [typeName |-> "Mutation", fieldName |-> <<"delete", typeValue>>],
      [typeName |-> "Query", fieldName |-> <<"get", typeValue>>],
      [typeName |-> "Query", fieldName |-> <<"list", typeValue>>]>>

\* slip: the get resolver is attached before the delete resolver
ResolverCalls_Reordered(typeValue) ==
    <<[typeName |-> "Mutation", fieldName |-> <<"create", typeValue>>],
      [typeName |-> "Mutation", fieldName |-> <<"update", typeValue>>],
      [typeName |-> "Query", fieldName |-> <<"get", typeValue>>],
      [typeName |-> "Mutation", fieldName |-> <<"delete", typeValue>>],
      [typeName |-> "Query", fieldName |-> plurality(<<"list", typeValue>>)]>>

\* the five createSidecarResolver calls of object, in program order
ResolverCalls(typeValue) ==
    <<[typeName |-> "Mutation", fieldName |-> <<"create", typeValue>>],
      [typeName |-> "Mutation", fieldName |-> <<"update", typeValue>>],
      [typeName |-> "Mutation", fieldName |-> <<"delete", typeValue>>],
      [typeName |-> "Query", fieldName |-> <<"get", typeValue>>],
      [typeName |-> "Query", fieldName |-> plurality(<<"list", typeValue>>)]>>

\* slip: the model directive is not looked for
validateObjectThrows_NoModelCheck(def) == ~def.directives.present

\* validateObject throws InvalidDirectiveError
validateObjectThrows(def) ==
    \/ ~def.directives.present
    \/ "model" \notin def.directives.names

VARIABLES
    registry,      \* ctx resources: key -> descriptor
    stacks,        \* ctx stack mapping: key -> stack name
    pc,            \* position of each handler invocation
    definition,    \* its definition argument
    directive,     \* its directive arguments
    ret,           \* the keys returned by createLambdaFunctionResources
    nset,          \* setResource calls made by createLambdaFunctionResources in this run
    nmap,          \* mapResourceToStack calls made by it in this run
    rcalls,        \* createSidecarResolver calls made in this run, in order
    lastSet,       \* the latest setResource call: key, whether present, caller
    prev,          \* the previous run of the handler
    ncalls,        \* handler invocations so far
    overlap,       \* whether the current run of each invocation ran alongside another
    arnName, arnRegion, arnResult

arnVars == <<arnName, arnRegion, arnResult>>
ctxVars == <<registry, stacks>>
runVars == <<pc, definition, directive, ret, nset, nmap, rcalls, lastSet, prev, ncalls,
            overlap>>
vars == <<registry, stacks, pc, definition, directive, ret, nset, nmap, rcalls,
          lastSet, prev, ncalls, overlap, arnName, arnRegion, arnResult>>

Empty == [k \in {} |-> NoResult]

InitCtx ==
    /\ registry = Empty
    /\ stacks = Empty
    /\ pc = [p \in Procs |-> "idle"]
    /\ definition = [p \in Procs |-> NoDefinition]
    /\ directive = [p \in Procs |-> NoArguments]
    /\ ret = [p \in Procs |-> NoKeys]
    /\ nset = [p \in Procs |-> 0]
    /\ nmap = [p \in Procs |-> 0]
    /\ rcalls = [p \in Procs |-> <<>>]
    /\ lastSet = NoSet
    /\ prev = NoRun
    /\ ncalls = 0
    /\ overlap = [p \in Procs |-> FALSE]

Init ==
    /\ InitCtx
    /\ arnName = <<"fn">>
    /\ arnRegion = NoRegion
    /\ arnResult = NoResult

Running(p) == pc[p] \notin {"idle", "done", "failed"}

iamRoleId(p) == FunctionIAMRoleID(directive[p].name, directive[p].region)
dataSourceName(p) == FunctionDataSourceID(directive[p].name, directive[p].region)
functionId(p) ==
    FunctionAppSyncFunctionConfigurationID(directive[p].name, directive[p].region)

\* the pipeline calls object(definition, directive, ctx)
Object(p, def, args) ==
    /\ ~Running(p)
    /\ ncalls < MaxCalls
    /\ pc' = [pc EXCEPT ![p] = "validate"]
    /\ definition' = [definition EXCEPT ![p] = def]
    /\ directive' = [directive EXCEPT ![p] = args]
    /\ ret' = [ret EXCEPT ![p] = NoKeys]
    /\ nset' = [nset EXCEPT ![p] = 0]
    /\ nmap' = [nmap EXCEPT ![p] = 0]
    /\ rcalls' = [rcalls EXCEPT ![p] = <<>>]
    /\ prev' = IF pc[p] = "idle" THEN prev
               ELSE [definition |-> definition[p], directive |-> directive[p],
                     ret |-> ret[p], pc |-> pc[p]]
    /\ ncalls' = ncalls + 1
    /\ overlap' = IF \E q \in Procs \ {p} : Running(q)
                  THEN [q \in Procs |-> q = p \/ Running(q) \/ overlap[q]]
                  ELSE [overlap EXCEPT ![p] = FALSE]
    /\ UNCHANGED <<registry, stacks, lastSet, arnVars>>

ValidateObject(p) ==
    /\ pc[p] = "validate"
    /\ pc' = [pc EXCEPT ![p] = IF validateObjectThrows(definition[p])
                               THEN "failed" ELSE "roleCheck"]
    /\ UNCHANGED <<registry, stacks, definition, directive, ret, nset, nmap,
                   rcalls, lastSet, prev, ncalls, overlap, arnVars>>

\* slip: the presence of the role decides all three creations
Check_RoleDecides(p, at, key, create, skip) ==
    /\ pc[p] = at
    /\ pc' = [pc EXCEPT ![p] = IF getResource(registry, iamRoleId(p)) THEN skip ELSE create]

\* if (!ctx.getResource(key)) for the three shared resources
Check(p, at, key, create, skip) ==
    /\ pc[p] = at
    /\ pc' = [pc EXCEPT ![p] = IF getResource(registry, key) THEN skip ELSE create]

\* ctx.setResource(key, resource); ctx.mapResourceToStack(stack, key)
Create(p, at, key, resource, next) ==
    /\ pc[p] = at
    /\ lastSet' = [key |-> key, existed |-> key \in DOMAIN registry,
                   by |-> "createLambdaFunctionResources"]
    /\ registry' = setResource(registry, key, resource)
    /\ stacks' = mapResourceToStack(stacks, SIDECAR_DIRECTIVE_STACK, key)
    /\ nset' = [nset EXCEPT ![p] = @ + 1]
    /\ nmap' = [nmap EXCEPT ![p] = @ + 1]
    /\ pc' = [pc EXCEPT ![p] = next]

Return(p) ==
    ret' = [ret EXCEPT ![p] =
               [sidecarLambdaFunctionId |-> functionId(p),
                sidecarLambdaDataSourceName |-> dataSourceName(p)]]

RoleCheck(p) ==
    /\ Check(p, "roleCheck", iamRoleId(p), "roleCreate", "dsCheck")
    /\ UNCHANGED <<registry, stacks, definition, directive, ret, nset, nmap,
                   rcalls, lastSet, prev, ncalls, overlap, arnVars>>

RoleCreate(p) ==
    /\ Create(p, "roleCreate", iamRoleId(p),
              RoleResource(directive[p].name, directive[p].region), "dsCheck")
    /\ UNCHANGED <<definition, directive, ret, rcalls, prev, ncalls, overlap, arnVars>>

DataSourceCheck(p) ==
    /\ Check(p, "dsCheck", dataSourceName(p), "dsCreate", "fnCheck")
    /\ UNCHANGED <<registry, stacks, definition, directive, ret, nset, nmap,
                   rcalls, lastSet, prev, ncalls, overlap, arnVars>>

DataSourceCreate(p) ==
    /\ Create(p, "dsCreate", dataSourceName(p),
              DataSourceResource(directive[p].name, directive[p].region,
                                 iamRoleId(p), dataSourceName(p)), "fnCheck")
    /\ UNCHANGED <<definition, directive, ret, rcalls, prev, ncalls, overlap, arnVars>>

FunctionCheck(p) ==
    /\ Check(p, "fnCheck", functionId(p), "fnCreate", "resolver")
    /\ IF getResource(registry, functionId(p)) THEN Return(p) ELSE UNCHANGED ret
    /\ UNCHANGED <<registry, stacks, definition, directive, nset, nmap,
                   rcalls, lastSet, prev, ncalls, overlap, arnVars>>

FunctionCreate(p) ==
    /\ Create(p, "fnCreate", functionId(p),
              FunctionConfigurationResource(functionId(p), dataSourceName(p)),
              "resolver")
    /\ Return(p)
    /\ UNCHANGED <<definition, directive, rcalls, prev, ncalls, overlap, arnVars>>

\* the next createSidecarResolver call of object
CreateSidecarResolver(p) ==
    /\ pc[p] = "resolver"
    /\ LET calls == ResolverCalls(definition[p].name)
           call == calls[Len(rcalls[p]) + 1]
           sidecarLambdaFunctionId == ret[p].sidecarLambdaFunctionId
           sidecarLambdaDataSourceName == ret[p].sidecarLambdaDataSourceName
           id == sidecarResolverId(call.typeName, call.fieldName)
       IN  /\ lastSet' = [key |-> id, existed |-> id \in DOMAIN registry,
                          by |-> "createSidecarResolver"]
           /\ registry' = setResource(registry, id,
                             ResolverResource(sidecarLambdaFunctionId,
                                              sidecarLambdaDataSourceName,
                                              call.typeName, call.fieldName))
           /\ stacks' = mapResourceToStack(stacks, SIDECAR_DIRECTIVE_STACK, id)
           /\ rcalls' = [rcalls EXCEPT ![p] =
                            Append(@, [typeName |-> call.typeName,
                                       fieldName |-> call.fieldName,
                                       sidecarLambdaFunctionId |-> sidecarLambdaFunctionId,
                                       sidecarLambdaDataSourceName |-> sidecarLambdaDataSourceName])]
           /\ pc' = [pc EXCEPT ![p] =
                        IF Len(rcalls[p]) + 1 = Len(calls) THEN "done" ELSE "resolver"]
    /\ UNCHANGED <<definition, directive, ret, nset, nmap, prev, ncalls, overlap, arnVars>>

Step(p) ==
    \/ ValidateObject(p)
    \/ RoleCheck(p)
    \/ RoleCreate(p)
    \/ DataSourceCheck(p)
    \/ DataSourceCreate(p)
    \/ FunctionCheck(p)
    \/ FunctionCreate(p)
    \/ CreateSidecarResolver(p)

\* the pipeline serializes directive processing: one invocation at a time
Next ==
    \E p \in SerialProcs :
        \/ \E def \in Definitions, args \in DirectiveArguments : Object(p, def, args)
        \/ Step(p)

Spec == Init /\ [][Next]_vars

\* ------------------- the same handler if the pipeline ran invocations in parallel
\* every statement of an invocation is a step; steps of two invocations interleave
InterleavedDefinitions == {def \in Definitions : def.name = "Widget"}
InterleavedArguments == {args \in DirectiveArguments : args.region = NoRegion}

NextInterleaved ==
    \E p \in Procs :
        \/ \E def \in InterleavedDefinitions, args \in InterleavedArguments :
              Object(p, def, args)
        \/ Step(p)

SpecInterleaved == Init /\ [][NextInterleaved]_vars

\* ------------- one invocation on a context other transformers have written to
\* a resource put into the context before this handler runs
PreexistingResource(key) ==
    [Type |-> "Preexisting", Properties |-> [Name |-> key], DependsOn |-> {}]

PreexistingStack == "PreexistingStack"
OtherKey == <<"PostTable">>

SharedKeys(args) ==
    {FunctionIAMRoleID(args.name, args.region),
     FunctionDataSourceID(args.name, args.region),
     FunctionAppSyncFunctionConfigurationID(args.name, args.region)}

InitPrepopulated ==
    /\ \E args \in DirectiveArguments : \E present \in SUBSET SharedKeys(args) :
          /\ registry = [k \in present \cup {OtherKey} |-> PreexistingResource(k)]
          /\ stacks = [k \in present \cup {OtherKey} |-> PreexistingStack]
    /\ pc = [p \in Procs |-> "idle"]
    /\ definition = [p \in Procs |-> NoDefinition]
    /\ directive = [p \in Procs |-> NoArguments]
    /\ ret = [p \in Procs |-> NoKeys]
    /\ nset = [p \in Procs |-> 0]
    /\ nmap = [p \in Procs |-> 0]
    /\ rcalls = [p \in Procs |-> <<>>]
    /\ lastSet = NoSet
    /\ prev = NoRun
    /\ ncalls = 0
    /\ overlap = [p \in Procs |-> FALSE]
    /\ arnName = <<"fn">>
    /\ arnRegion = NoRegion
    /\ arnResult = NoResult

NextPrepopulated ==
    \E p \in SerialProcs :
        \/ \E def \in Definitions, args \in DirectiveArguments :
              ncalls = 0 /\ Object(p, def, args)
        \/ Step(p)

SpecPrepopulated == InitPrepopulated /\ [][NextPrepopulated]_vars

\* ------------------------------------------- the address builder on its own
InitArn ==
    /\ InitCtx
    /\ arnName \in ArnNames
    /\ arnRegion \in ArnRegions
    /\ arnResult = NoResult

CallLambdaArnResource ==
    /\ arnResult = NoResult
    /\ arnResult' = lambdaArnResource(arnName, arnRegion)
    /\ UNCHANGED <<arnName, arnRegion, ctxVars, runVars>>

NextArn == CallLambdaArnResource

SpecArn == InitArn /\ [][NextArn]_vars

\* ===================================================================== claims
RoleType == "AWS::IAM::Role"
DataSourceType == "AWS::AppSync::DataSource"
FunctionConfigurationType == "AWS::AppSync::FunctionConfiguration"
ResolverType == "AWS::AppSync::Resolver"

KeysOfType(t) == {k \in DOMAIN registry : registry[k].Type = t}
CountOfType(t) == Cardinality(KeysOfType(t))

\* createLambdaFunctionResources of the current run of p has returned
GraphBuilt(p) == pc[p] \in {"resolver", "done"}

\* the run before this one completed with the same (name, region)
SameTargetAsPrevious(p) == prev.pc = "done" /\ prev.directive = directive[p]

\* C1: starting from an empty registry, the second of two successive
\* createLambdaFunctionResources invocations with the same (name, region)
\* makes no setResource and no mapResourceToStack call and returns the pair
\* the first returned; the registry then holds exactly one role, one data
\* source and one function configuration.
C1_SecondInvocationIsNoOp ==
    \A p \in SerialProcs :
        (GraphBuilt(p) /\ SameTargetAsPrevious(p)) =>
            /\ nset[p] = 0
            /\ nmap[p] = 0
            /\ ret[p] = prev.ret
            /\ ncalls = 2 =>
                  /\ CountOfType(RoleType) = 1
                  /\ CountOfType(DataSourceType) = 1
                  /\ CountOfType(FunctionConfigurationType) = 1

C1_Witness ==
    /\ ncalls = 2
    /\ pc[1] = "resolver"
    /\ rcalls[1] = <<>>
    /\ SameTargetAsPrevious(1)
    /\ CountOfType(RoleType) = 1

\* C2: two distinct annotated types that both carry the model directive and
\* reference the same target (name, no region), processed from an empty
\* registry, leave one role, one data source, one function configuration and
\* ten resolvers, and every resolver depends on that one function
\* configuration key.
TwoTypesOneTarget ==
    /\ ncalls = 2
    /\ pc[1] = "done"
    /\ prev.pc = "done"
    /\ prev.definition.name # definition[1].name
    /\ prev.directive = directive[1]
    /\ directive[1].region = NoRegion

C2_SharedTarget ==
    TwoTypesOneTarget =>
        /\ CountOfType(RoleType) = 1
        /\ CountOfType(DataSourceType) = 1
        /\ CountOfType(FunctionConfigurationType) = 1
        /\ CountOfType(ResolverType) = 10
        /\ \E f \in KeysOfType(FunctionConfigurationType) :
              \A r \in KeysOfType(ResolverType) : registry[r].DependsOn = {f}

C2_Witness == TwoTypesOneTarget /\ CountOfType(ResolverType) = 10

\* C3: for a type without directives or without a model directive the
\* handler raises InvalidDirectiveError, and neither the call nor the
\* validation changes the registry or the stack mapping.
LacksModel(def) == ~def.directives.present \/ "model" \notin def.directives.names

C3_ValidationGate ==
    [][\A p \in SerialProcs :
          /\ (pc[p] # "validate" /\ pc'[p] = "validate") =>
                (registry' = registry /\ stacks' = stacks)
          /\ (pc[p] = "validate" /\ pc'[p] # "validate" /\ LacksModel(definition[p])) =>
                (pc'[p] = "failed" /\ registry' = registry /\ stacks' = stacks)]_vars

C3_Witness ==
    /\ pc[1] = "failed"
    /\ LacksModel(definition[1])
    /\ CountOfType(ResolverType) = 5

\* C4 (as claimed): setResource is never called on a key that is already in
\* the registry, the resolver insertions included.
C4_NeverOverwrites == ~lastSet.existed

\* C4 (amended): createLambdaFunctionResources never calls setResource on a
\* present key; only the unchecked insertion of createSidecarResolver does.
C4_OnlyResolversOverwrite ==
    lastSet.existed => lastSet.by = "createSidecarResolver"

C4_Witness ==
    /\ lastSet.by = "createLambdaFunctionResources"
    /\ ~lastSet.existed
    /\ ncalls >= 2
    /\ CountOfType(FunctionConfigurationType) = 2

\* a topological sort of the registry by its DependsOn edges (Kahn)
RECURSIVE TopologicalSort(_, _)
TopologicalSort(placed, remaining) ==
    LET done == {placed[i] : i \in 1..Len(placed)}
        ready == {k \in remaining : registry[k].DependsOn \subseteq done}
    IN  IF ready = {} THEN placed
        ELSE LET k == CHOOSE x \in ready : TRUE
             IN  TopologicalSort(Append(placed, k), remaining \ {k})

PositionIn(order, k) == CHOOSE i \in 1..Len(order) : order[i] = k

\* the one key k depends on is present and of type t
DependsOnOne(k, t) ==
    \E d \in DOMAIN registry : registry[k].DependsOn = {d} /\ registry[d].Type = t

\* C5: the dependency edges are exactly DataSource -> Role,
\* FunctionConfiguration -> DataSource, Resolver -> FunctionConfiguration and
\* none on a Role; they form a DAG, and a topological sort places a role
\* before its data source, before its function configuration, before every
\* resolver that references it.
C5_DependencyOrder ==
    /\ \A k \in DOMAIN registry :
          CASE registry[k].Type = RoleType -> registry[k].DependsOn = {}
            [] registry[k].Type = DataSourceType -> DependsOnOne(k, RoleType)
            [] registry[k].Type = FunctionConfigurationType -> DependsOnOne(k, DataSourceType)
            [] registry[k].Type = ResolverType -> DependsOnOne(k, FunctionConfigurationType)
            [] OTHER -> FALSE
    /\ LET order == TopologicalSort(<<>>, DOMAIN registry)
       IN  /\ Len(order) = Cardinality(DOMAIN registry)
           /\ \A k \in DOMAIN registry : \A d \in registry[k].DependsOn :
                 PositionIn(order, d) < PositionIn(order, k)
           /\ \A r \in KeysOfType(ResolverType) :
                 \A f \in registry[r].DependsOn : \A d \in registry[f].DependsOn :
                    \A o \in registry[d].DependsOn :
                       /\ registry[o].Type = RoleType
                       /\ PositionIn(order, o) < PositionIn(order, d)
                       /\ PositionIn(order, d) < PositionIn(order, f)
                       /\ PositionIn(order, f) < PositionIn(order, r)

C5_Witness ==
    /\ CountOfType(RoleType) = 2
    /\ CountOfType(DataSourceType) = 2
    /\ CountOfType(FunctionConfigurationType) = 2
    /\ CountOfType(ResolverType) = 10

\* C6: one run of the handler on a valid type T calls createSidecarResolver
\* exactly five times, for Mutation createT, updateT, deleteT and Query getT
\* and the pluralized listT, every call with the data source key and the
\* function configuration key that createLambdaFunctionResources returned;
\* the five resolvers stored carry that data source and depend on that
\* function configuration.
ExpectedFields(t) ==
    <<<<"Mutation", <<"create", t>>, <<"Mutation", "Create", t, "SidecarResolver">>>>,
      <<"Mutation", <<"update", t>>, <<"Mutation", "Update", t, "SidecarResolver">>>>,
      <<"Mutation", <<"delete", t>>, <<"Mutation", "Delete", t, "SidecarResolver">>>>,
      <<"Query", <<"get", t>>, <<"Query", "Get", t, "SidecarResolver">>>>,
      <<"Query", <<"list", t, "s">>, <<"Query", "List", t, "s", "SidecarResolver">>>>>>

C6_FiveResolvers ==
    \A p \in SerialProcs :
        pc[p] = "done" =>
            LET expected == ExpectedFields(definition[p].name)
            IN  /\ Len(rcalls[p]) = 5
                /\ \A i \in 1..5 :
                      /\ rcalls[p][i].typeName = expected[i][1]
                      /\ rcalls[p][i].fieldName = expected[i][2]
                      /\ rcalls[p][i].sidecarLambdaFunctionId = ret[p].sidecarLambdaFunctionId
                      /\ rcalls[p][i].sidecarLambdaDataSourceName = ret[p].sidecarLambdaDataSourceName
                      /\ expected[i][3] \in KeysOfType(ResolverType)
                      /\ registry[expected[i][3]].Properties.TypeName = expected[i][1]
                      /\ registry[expected[i][3]].Properties.FieldName = expected[i][2]
                      /\ registry[expected[i][3]].Properties.DataSourceName =
                            ret[p].sidecarLambdaDataSourceName
                      /\ registry[expected[i][3]].DependsOn = {ret[p].sidecarLambdaFunctionId}
                /\ ret[p].sidecarLambdaFunctionId \in KeysOfType(FunctionConfigurationType)
                /\ ret[p].sidecarLambdaDataSourceName \in KeysOfType(DataSourceType)

C6_Witness ==
    /\ pc[1] = "done"
    /\ Len(rcalls[1]) = 5
    /\ definition[1].name = "Widget"
    /\ <<"Query", "List", "Widget", "s", "SidecarResolver">> \in DOMAIN registry

\* C7 (as claimed): for a target name that embeds the ${env} token anywhere,
\* the defined branch is the address template of the name with a live env
\* substitution and the undefined branch is a template without substitutions
\* that contains no ${env} token.
HasToken(template, tok) == \E i \in 1..Len(template) : template[i] = tok

C7_PlaceholderStripped ==
    (arnResult # NoResult /\ HasToken(arnName, ENV)) =>
        /\ arnResult.fn = "Fn::If"
        /\ arnResult.cond = "HasEnvironmentParameter"
        /\ arnResult.whenTrue.fn = "Fn::Sub"
        /\ HasToken(arnResult.whenTrue.template, ENV)
        /\ arnResult.whenTrue.substitutions = {<<"env", [fn |-> "Ref", ref |-> "env"]>>}
        /\ arnResult.whenFalse.fn = "Fn::Sub"
        /\ arnResult.whenFalse.substitutions = {}
        /\ ~HasToken(arnResult.whenFalse.template, ENV)

\* no process is inside the handler
Quiescent == \A p \in Procs : ~Running(p)

\* C8: between handler invocations every key of the registry (all of them
\* inserted by this handler) is mapped to the stack FunctionDirectiveStack,
\* and no other key is mapped.
C8_StackMembership ==
    Quiescent =>
        /\ DOMAIN stacks = DOMAIN registry
        /\ \A k \in DOMAIN stacks : stacks[k] = "FunctionDirectiveStack"

C8_Witness ==
    /\ Quiescent
    /\ CountOfType(RoleType) = 2
    /\ CountOfType(ResolverType) = 10
    /\ Cardinality(DOMAIN stacks) = 16

\* phases of one run of the handler
Phase(at) ==
    CASE at = "validate" -> "Unvalidated"
      [] at \in {"roleCheck", "roleCreate", "dsCheck", "dsCreate", "fnCheck", "fnCreate"} ->
            "Validated"
      [] at = "resolver" -> "GraphBuilt"
      [] at = "done" -> "ResolversAttached"
      [] at = "failed" -> "Failed"
      [] OTHER -> "Idle"

PhaseSuccessors(ph) ==
    CASE ph = "Unvalidated" -> {"Validated", "Failed"}
      [] ph = "Validated" -> {"Validated", "GraphBuilt"}
      [] ph = "GraphBuilt" -> {"GraphBuilt", "ResolversAttached"}
      [] OTHER -> {"Unvalidated"}

FieldOrder == <<"create", "update", "delete", "get", "list">>

\* C9: a run goes Unvalidated -> Validated -> GraphBuilt -> ResolversAttached
\* in one pass; nothing is written before validation has passed; the role,
\* data source and function configuration keys are in the registry before a
\* resolver is inserted; the resolvers are inserted in the order create,
\* update, delete, get, list, and the run ends with the fifth.
C9_SinglePass ==
    [][\A p \in SerialProcs :
          /\ pc'[p] # pc[p] => Phase(pc'[p]) \in PhaseSuccessors(Phase(pc[p]))
          /\ Phase(pc[p]) \in {"Idle", "Failed", "ResolversAttached", "Unvalidated"} =>
                (registry' = registry /\ stacks' = stacks)
          /\ rcalls'[p] # rcalls[p] =>
                \/ rcalls'[p] = <<>> /\ Phase(pc'[p]) = "Unvalidated"
                \/ /\ Phase(pc[p]) = "GraphBuilt"
                   /\ Len(rcalls'[p]) = Len(rcalls[p]) + 1
                   /\ rcalls'[p][Len(rcalls'[p])].fieldName[1] = FieldOrder[Len(rcalls'[p])]
                   /\ {iamRoleId(p), dataSourceName(p), functionId(p)} \subseteq DOMAIN registry
                   /\ registry[iamRoleId(p)].Type = RoleType
                   /\ registry[dataSourceName(p)].Type = DataSourceType
                   /\ registry[functionId(p)].Type = FunctionConfigurationType
                   /\ Cardinality(DOMAIN registry') >= Cardinality(DOMAIN registry)
                   /\ (Len(rcalls'[p]) = 5) = (Phase(pc'[p]) = "ResolversAttached")
          /\ Phase(pc[p]) = "GraphBuilt" => rcalls'[p] # rcalls[p]]_vars

C9_Witness ==
    /\ pc[1] = "done"
    /\ Len(rcalls[1]) = 5
    /\ nset[1] = 3

\* C10: for a target name without the ${env} token both branches are the
\* same address template, the name verbatim after the function: prefix, with
\* an empty substitution map; the prefix holds the region when one is given
\* and the AWS::Region pseudo parameter when none is.
ExpectedTemplate(name, region) ==
    IF region \in {NoRegion, ""}
    THEN <<"arn:aws:lambda:${AWS::Region}:${AWS::AccountId}:function:">> \o name
    ELSE <<"arn:aws:lambda:", region, ":${AWS::AccountId}:function:">> \o name

C10_VerbatimWithoutPlaceholder ==
    (arnResult # NoResult /\ ~HasToken(arnName, ENV)) =>
        /\ arnResult.fn = "Fn::If"
        /\ arnResult.whenTrue = arnResult.whenFalse
        /\ arnResult.whenTrue.fn = "Fn::Sub"
        /\ arnResult.whenTrue.substitutions = {}
        /\ arnResult.whenTrue.template = ExpectedTemplate(arnName, arnRegion)

C10_Witness ==
    /\ arnResult # NoResult
    /\ arnName = <<"fn", DASH, "fn">>
    /\ arnRegion = "eu-west-1"

\* C11: every data source names as its service role the role stored under
\* the role key of its own (name, region), and the single inline permission
\* of that role allows invoking exactly the address the data source invokes,
\* the lambdaArnResource expression of that (name, region).
C11_RoleMatchesDataSource ==
    \A args \in DirectiveArguments :
        LET ds == FunctionDataSourceID(args.name, args.region)
            role == FunctionIAMRoleID(args.name, args.region)
        IN  ds \in DOMAIN registry =>
               /\ registry[ds].Type = DataSourceType
               /\ role \in KeysOfType(RoleType)
               /\ registry[ds].Properties.ServiceRoleArn =
                     [fn |-> "Fn::GetAtt", res |-> role, att |-> "Arn"]
               /\ Len(registry[role].Properties.Policies) = 1
               /\ registry[role].Properties.Policies[1].Effect = "Allow"
               /\ registry[role].Properties.Policies[1].Action = {"lambda:InvokeFunction"}
               /\ registry[role].Properties.Policies[1].Resource =
                     registry[ds].Properties.LambdaFunctionArn
               /\ registry[ds].Properties.LambdaFunctionArn =
                     lambdaArnResource(args.name, args.region)

C11_Witness ==
    /\ FunctionDataSourceID(<<"fn", DASH, ENV>>, "eu-west-1") \in DOMAIN registry
    /\ FunctionDataSourceID(<<"fn">>, NoRegion) \in DOMAIN registry
    /\ CountOfType(DataSourceType) = 2

\* C12: with the existence check and the insert as separate steps,
\* createLambdaFunctionResources inserts a role, data source or function
\* configuration key that is already present only in a run that was
\* interleaved with another invocation (and interleaving does reach such an
\* insert); a run that had the registry to itself never does.
C12_DuplicateOnlyWhenInterleaved ==
    [][\A p \in Procs :
          (nset'[p] = nset[p] + 1 /\ lastSet'.existed) => overlap[p]]_vars

C12_Witness ==
    /\ lastSet.existed
    /\ lastSet.by = "createLambdaFunctionResources"
    /\ overlap[1]
    /\ overlap[2]
    /\ directive[1] = directive[2]

\* C13: whatever subset of the role, data source and function configuration
\* keys of (name, region) the registry holds when createLambdaFunctionResources
\* starts, each of its checks decides on its own key alone, a missing key is
\* inserted and tagged FunctionDirectiveStack, an entry already present and
\* its stack tag stay as they were, no other key is touched, and on return
\* all three keys are present.
C13_InsertsExactlyTheMissing ==
    [][\A p \in SerialProcs :
          Phase(pc[p]) = "Validated" =>
             LET added == DOMAIN registry' \ DOMAIN registry
                 at == pc[p]
                 key == CASE at \in {"roleCheck", "roleCreate"} -> iamRoleId(p)
                          [] at \in {"dsCheck", "dsCreate"} -> dataSourceName(p)
                          [] OTHER -> functionId(p)
             IN  /\ \A k \in DOMAIN registry :
                       k \in DOMAIN registry' /\ registry'[k] = registry[k]
                 /\ \A k \in DOMAIN stacks :
                       k \in DOMAIN stacks' /\ stacks'[k] = stacks[k]
                 /\ DOMAIN stacks' \ DOMAIN stacks = added
                 /\ \A k \in added : stacks'[k] = "FunctionDirectiveStack"
                 /\ at \in {"roleCheck", "dsCheck", "fnCheck"} =>
                       /\ added = {}
                       /\ (key \in DOMAIN registry) =
                             (pc'[p] \notin {"roleCreate", "dsCreate", "fnCreate"})
                 /\ at \in {"roleCreate", "dsCreate", "fnCreate"} =>
                       /\ added = {key}
                       /\ registry'[key].Type # "Preexisting"
                 /\ Phase(pc'[p]) = "GraphBuilt" =>
                       /\ {iamRoleId(p), dataSourceName(p), functionId(p)}
                             \subseteq DOMAIN registry'
                       /\ ret'[p].sidecarLambdaFunctionId = functionId(p)
                       /\ ret'[p].sidecarLambdaDataSourceName = dataSourceName(p)]_vars

C13_Witness ==
    /\ pc[1] = "resolver"
    /\ nset[1] = 2
    /\ registry[dataSourceName(1)].Type = "Preexisting"
    /\ stacks[dataSourceName(1)] = "PreexistingStack"
    /\ registry[iamRoleId(1)].Type = RoleType
    /\ registry[functionId(1)].Type = FunctionConfigurationType
    /\ stacks[iamRoleId(1)] = "FunctionDirectiveStack"

\* what one run of the handler on (def, args) puts into an empty registry
Contribution(def, args) ==
    LET role == FunctionIAMRoleID(args.name, args.region)
        ds == FunctionDataSourceID(args.name, args.region)
        fn == FunctionAppSyncFunctionConfigurationID(args.name, args.region)
        calls == ResolverCalls(def.name)
        resolver(i) == sidecarResolverId(calls[i].typeName, calls[i].fieldName)
        keys == {role, ds, fn} \cup {resolver(i) : i \in 1..Len(calls)}
    IN  [k \in keys |->
            IF k = role THEN RoleResource(args.name, args.region)
            ELSE IF k = ds THEN DataSourceResource(args.name, args.region, role, ds)
            ELSE IF k = fn THEN FunctionConfigurationResource(fn, ds)
            ELSE LET i == CHOOSE j \in 1..Len(calls) : resolver(j) = k
                 IN  ResolverResource(fn, ds, calls[i].typeName, calls[i].fieldName)]

TwoTypesDone ==
    /\ ncalls = 2
    /\ pc[1] = "done"
    /\ prev.pc = "done"
    /\ prev.definition.name # definition[1].name

\* C14: after the handler has run on two valid types with distinct names, in
\* either order and with any directive arguments, the registry is the union
\* of what each run contributes on its own, and the stack mapping tags
\* exactly those keys: the result does not depend on the order.
C14_OrderIndependent ==
    TwoTypesDone =>
        LET first == Contribution(prev.definition, prev.directive)
            second == Contribution(definition[1], directive[1])
        IN  /\ DOMAIN registry = DOMAIN first \cup DOMAIN second
            /\ \A k \in DOMAIN first : registry[k] = first[k]
            /\ \A k \in DOMAIN second : registry[k] = second[k]
            /\ DOMAIN stacks = DOMAIN registry
            /\ \A k \in DOMAIN stacks : stacks[k] = "FunctionDirectiveStack"

C14_Witness ==
    /\ TwoTypesDone
    /\ prev.directive.name = directive[1].name
    /\ prev.directive.region # directive[1].region
    /\ Cardinality(DOMAIN registry) = 16

\* C15 (as claimed): two role entries stored under different role keys
\* never carry the same RoleName expression, in either branch of the
\* environment-parameter conditional.
C15_RoleNamesUnique ==
    \A a \in KeysOfType(RoleType) : \A b \in KeysOfType(RoleType) :
        a # b =>
            /\ registry[a].Properties.RoleName.whenTrue #
                  registry[b].Properties.RoleName.whenTrue
            /\ registry[a].Properties.RoleName.whenFalse #
                  registry[b].Properties.RoleName.whenFalse

====
